---- MODULE Spec2Model ----
(***************************************************************************)
(* Model of the chat client of cli_llm.rs.  The repository builds two      *)
(* programs around the same conversation / completion exchange:            *)
(*   - src/gui.rs : the interactive-surface variant (ChatApp), whose       *)
(*     update() polls an mpsc channel fed by one background thread per     *)
(*     send action;                                                        *)
(*   - src/main.rs: the command-line variant, a sequential read/post loop. *)
(* A run is a run of one of the two programs; `variant` says which.        *)
(* Texts are sequences of characters, so that trim() and the               *)
(* case-insensitive comparison are computed as the code computes them.     *)
(***************************************************************************)
EXTENDS Integers, Sequences, FiniteSets, TLC

VARIABLES
    variant,        \* "gui" (src/gui.rs) or "cli" (src/main.rs)
    conversation,   \* the conversation buffer of the running program
    input,          \* ChatApp.input, the text box
    chan,           \* messages sent on tx and not yet received on rx
    is_typing,      \* ChatApp.is_typing
    typing_start,   \* ChatApp.typing_start : Option<Instant>
    current_model,  \* ChatApp.current_model
    threads,        \* the background threads spawned by send_request, in launch order
    closed,         \* the ChatApp (and with it rx) has been dropped
    repaint,        \* the repaint the last frame asked the egui context for
    cli_pc,         \* position of main.rs's loop
    cli_request,    \* the request body main.rs has posted
    cli_resp        \* the outcome of main.rs's POST, not yet handled

vars == <<variant, conversation, input, chan, is_typing, typing_start,
          current_model, threads, closed, repaint, cli_pc, cli_request, cli_resp>>

gui_vars == <<input, chan, is_typing, typing_start, current_model, threads, closed,
              repaint>>

cli_vars == <<cli_pc, cli_request, cli_resp>>

----------------------------------------------------------------------------
(* Bounds *)

MaxDispatch == 2    \* send actions the gui accepts in one run

MaxCliTurns == 2    \* lines the cli posts in one run

MaxChoices == 2     \* longest choices array in a response body

----------------------------------------------------------------------------
(* Option<T> *)

None == [tag |-> "None"]

Some(v) == [tag |-> "Some", val |-> v]

----------------------------------------------------------------------------
(* Texts *)

hello == <<"h","e","l","l","o">>

ping == <<"p","i","n","g">>

hi_there == <<"h","i"," ","t","h","e","r","e">>

other == <<"o","t","h","e","r">>

quit == <<"q","u","i","t">>

WelcomeText == <<"H","e","l","l","o","!"," ","I","'","m"," ","a","n"," ","A","I"," ","a","s","s","i","s","t","a","n","t","."," ","H","o","w"," ","c","a","n"," ","I"," ","h","e","l","p"," ","y","o","u"," ","t","o","d","a","y","?">>

\* what the user may leave in the text box after editing it
InputTexts == { <<" ">>, hello, <<" ">> \o ping \o <<" ", "\n">> }

\* what the user may type on a line of the terminal
InputLines == InputTexts \cup { << >>, <<"Q","u","i","t">> }

is_whitespace(c) == c \in {" ", "\n", "\t", "\r"}

RECURSIVE trim_start(_)
trim_start(s) ==
    IF s = <<>> THEN s
    ELSE IF is_whitespace(Head(s)) THEN trim_start(Tail(s)) ELSE s

RECURSIVE trim_end(_)
trim_end(s) ==
    IF s = <<>> THEN s
    ELSE IF is_whitespace(s[Len(s)]) THEN trim_end(SubSeq(s, 1, Len(s) - 1)) ELSE s

trim(s) == trim_end(trim_start(s))

to_ascii_lowercase(c) ==
    CASE c = "Q" -> "q"
      [] c = "U" -> "u"
      [] c = "I" -> "i"
      [] c = "T" -> "t"
      [] c = "H" -> "h"
      [] c = "A" -> "a"
      [] OTHER -> c

eq_ignore_ascii_case(a, b) ==
    /\ Len(a) = Len(b)
    /\ \A i \in 1..Len(a) : to_ascii_lowercase(a[i]) = to_ascii_lowercase(b[i])

----------------------------------------------------------------------------
(* Models, messages, requests *)

DefaultModel == "deepseek/deepseek-chat:free"

Models == { "deepseek/deepseek-chat:free", "anthropic/claude-3-5-sonnet", "google/gemini-pro" }

\* the entries of the selector the user picks in the runs explored
PickedModels == { "deepseek/deepseek-chat:free", "anthropic/claude-3-5-sonnet" }

CliModel == "cognitivecomputations/dolphin3.0-mistral-24b:free"

\* gui.rs ChatMessageRequest
ChatMessageRequest(r, c, t) == [role |-> r, content |-> c, timestamp |-> t]

\* main.rs ChatMessageRequest
CliChatMessageRequest(r, c) == [role |-> r, content |-> c]

\* ChatMessage, the response-side message that travels on the channel
ChatMessage(r, c) == [role |-> r, content |-> c]

\* #[derive(Serialize)] with #[serde(skip)] on timestamp
SerializeMessage(m) == [role |-> m.role, content |-> m.content]

SerializeMessages(ms) == [i \in 1..Len(ms) |-> SerializeMessage(ms[i])]

OpenRouterChatRequest(m, ms) == [model |-> m, messages |-> ms]

\* api_conversation losing the first message of the snapshot
api_conversation_short(conv) ==
    [i \in 1..(Len(conv) - 1) |->
        ChatMessageRequest(conv[i + 1].role, conv[i + 1].content, conv[i + 1].timestamp)]

\* the map at the top of the background task: rebuilds every message field by field
api_conversation(conv) ==
    [i \in 1..Len(conv) |->
        ChatMessageRequest(conv[i].role, conv[i].content, conv[i].timestamp)]

----------------------------------------------------------------------------
(* Responses of the remote endpoint *)

Statuses == {200, 500}

\* is_success taking every status from 200 up as a success
is_success_open(status) == status >= 200

is_success(status) == status >= 200 /\ status < 300

ResponseFields == {"id", "object", "created", "choices"}

\* the choices a body may carry
ChoiceValues ==
    { [message |-> ChatMessage("assistant", hi_there)],
      [message |-> ChatMessage("user", other)] }

RECURSIVE SeqsUpTo(_, _)
SeqsUpTo(S, n) ==
    IF n = 0 THEN { <<>> }
    ELSE LET shorter == SeqsUpTo(S, n - 1)
         IN  shorter \cup { Append(s, x) : s \in shorter, x \in S }

\* A body is the text the server returns: not JSON at all, or a JSON object
\* with some of the fields of OpenRouterChatResponse.
NotJson == [json |-> FALSE, fields |-> {}, choices |-> <<>>]

Completion(cs) == [json |-> TRUE, fields |-> ResponseFields, choices |-> cs]

BodyTexts ==
    { NotJson }
    \cup { [json |-> TRUE, fields |-> {"choices"}, choices |-> cs] :
             cs \in SeqsUpTo(ChoiceValues, 1) \ { <<>> } }
    \cup { Completion(cs) : cs \in SeqsUpTo(ChoiceValues, MaxChoices) }

\* the bodies sent along with a non-success status
ErrorBodyTexts ==
    { NotJson } \cup { Completion(cs) : cs \in SeqsUpTo(ChoiceValues, 1) }

\* readable = FALSE: reading the body (resp.text()) fails
Responses ==
    { [kind |-> "error"] }
    \cup { [kind |-> "http", status |-> s, readable |-> FALSE, text |-> NotJson] :
             s \in Statuses }
    \cup { [kind |-> "http", status |-> s, readable |-> TRUE, text |-> b] :
             s \in { t \in Statuses : is_success(t) }, b \in BodyTexts }
    \cup { [kind |-> "http", status |-> s, readable |-> TRUE, text |-> b] :
             s \in { t \in Statuses : ~is_success(t) }, b \in ErrorBodyTexts }

\* serde_json::from_str::<OpenRouterChatResponse>: every non-optional field
\* must be present
from_str(text) ==
    IF text.json /\ ResponseFields \subseteq text.fields
    THEN Some([choices |-> text.choices])
    ELSE None

first(s) == IF s = <<>> THEN None ELSE Some(s[1])

----------------------------------------------------------------------------
(* Initial state: ChatApp::new for the gui, the top of main for the cli *)

\* Instant::now(): instants are opaque, the program only stores and displays them
Instant_now == "instant"

WelcomeMessage == ChatMessageRequest("assistant", WelcomeText, Instant_now)

Init ==
    /\ variant \in {"gui", "cli"}
    /\ conversation = IF variant = "gui" THEN << WelcomeMessage >> ELSE << >>
    /\ input = << >>
    /\ chan = << >>
    /\ is_typing = FALSE
    /\ typing_start = None
    /\ current_model = DefaultModel
    /\ threads = << >>
    /\ closed = FALSE
    /\ repaint = IF variant = "gui" THEN Some(0) ELSE None
    /\ cli_pc = "prompt"
    /\ cli_request = None
    /\ cli_resp = None

----------------------------------------------------------------------------
(* gui.rs: the background thread started by send_request *)

\* spawn capturing the model the program starts with, not the selected one
spawn_default_model(conv, model) ==
    [conversation |-> conv, model |-> DefaultModel, pc |-> "start",
     request |-> None, resp |-> None, result |-> None]

\* the closure's captured state at thread::spawn
spawn(conv, model) ==
    [conversation |-> conv, model |-> model, pc |-> "start",
     request |-> None, resp |-> None, result |-> None]

\* send_request_result with the status test inverted
send_request_result_inverted(resp) ==
    IF resp.kind = "error" THEN None
    ELSE IF is_success(resp.status) THEN None
    ELSE IF ~resp.readable THEN None
    ELSE LET parsed == from_str(resp.text)
         IN  IF parsed = None THEN None
             ELSE LET choice == first(parsed.val.choices)
                  IN  IF choice = None THEN None
                      ELSE Some(ChatMessage("assistant", choice.val.message.content))

\* send_request_result answering an empty choices array with an empty message
send_request_result_default(resp) ==
    IF resp.kind = "error" THEN None
    ELSE IF ~is_success(resp.status) THEN None
    ELSE IF ~resp.readable THEN None
    ELSE LET parsed == from_str(resp.text)
         IN  IF parsed = None THEN None
             ELSE LET choice == first(parsed.val.choices)
                  IN  IF choice = None THEN Some(ChatMessage("assistant", << >>))
                      ELSE Some(ChatMessage("assistant", choice.val.message.content))

\* send_request_result without the status test
send_request_result_any_status(resp) ==
    IF resp.kind = "error" THEN None
    ELSE IF ~resp.readable THEN None
    ELSE LET parsed == from_str(resp.text)
         IN  IF parsed = None THEN None
             ELSE LET choice == first(parsed.val.choices)
                  IN  IF choice = None THEN None
                      ELSE Some(ChatMessage("assistant", choice.val.message.content))

\* send_request_result taking the last choice
send_request_result_last(resp) ==
    IF resp.kind = "error" THEN None
    ELSE IF ~is_success(resp.status) THEN None
    ELSE IF ~resp.readable THEN None
    ELSE LET parsed == from_str(resp.text)
         IN  IF parsed = None THEN None
             ELSE LET cs == parsed.val.choices
                  IN  IF cs = << >> THEN None
                      ELSE Some(ChatMessage("assistant", cs[Len(cs)].message.content))

\* the value of the async block: Some(ChatMessage) or None
send_request_result(resp) ==
    IF resp.kind = "error" THEN None
    ELSE IF ~is_success(resp.status) THEN None
    ELSE IF ~resp.readable THEN None
    ELSE LET parsed == from_str(resp.text)
         IN  IF parsed = None THEN None
             ELSE LET choice == first(parsed.val.choices)
                  IN  IF choice = None THEN None
                      ELSE Some(ChatMessage("assistant", choice.val.message.content))

\* tx_send queueing the message twice
tx_send_twice(ch, msg, rx_dropped) ==
    IF rx_dropped THEN ch ELSE Append(Append(ch, msg), msg)

\* tx_send queueing the message whether or not the receiver is still there
tx_send_unchecked(ch, msg, rx_dropped) == Append(ch, msg)

\* tx.send(assistant_msg): queues the message unless the receiver is gone
tx_send(ch, msg, rx_dropped) == IF rx_dropped THEN ch ELSE Append(ch, msg)

\* the thread wakes from its sleep, builds the request body and posts it
ThreadPost(i) ==
    /\ variant = "gui"
    /\ i \in 1..Len(threads)
    /\ threads[i].pc = "start"
    /\ threads' = [threads EXCEPT
            ![i].pc = "posted",
            ![i].request = Some(OpenRouterChatRequest(threads[i].model,
                              SerializeMessages(api_conversation(threads[i].conversation))))]
    /\ UNCHANGED <<variant, conversation, input, chan, is_typing, typing_start,
                   current_model, closed, repaint, cli_vars>>

\* the POST resolves: a transport error or an HTTP response
NetRespond(i, r) ==
    /\ variant = "gui"
    /\ i \in 1..Len(threads)
    /\ threads[i].pc = "posted"
    /\ threads' = [threads EXCEPT ![i].pc = "responded", ![i].resp = Some(r)]
    /\ UNCHANGED <<variant, conversation, input, chan, is_typing, typing_start,
                   current_model, closed, repaint, cli_vars>>

\* the match on resp: block_on returns `result`
ThreadHandle(i) ==
    /\ variant = "gui"
    /\ i \in 1..Len(threads)
    /\ threads[i].pc = "responded"
    /\ threads' = [threads EXCEPT
            ![i].pc = "result",
            ![i].result = send_request_result(threads[i].resp.val)]
    /\ UNCHANGED <<variant, conversation, input, chan, is_typing, typing_start,
                   current_model, closed, repaint, cli_vars>>

\* if let Some(assistant_msg) = result { let _ = tx.send(assistant_msg); }
\* and the thread ends, dropping what it still holds of the exchange
ThreadSend(i) ==
    /\ variant = "gui"
    /\ i \in 1..Len(threads)
    /\ threads[i].pc = "result"
    /\ chan' = IF threads[i].result = None THEN chan
               ELSE tx_send(chan, threads[i].result.val, closed)
    /\ threads' = [threads EXCEPT ![i].pc = "done", ![i].resp = None]
    /\ UNCHANGED <<variant, conversation, input, is_typing, typing_start,
                   current_model, closed, repaint, cli_vars>>

----------------------------------------------------------------------------
(* gui.rs: ChatApp::update, one frame of the interaction loop *)

\* self.rx.try_recv(): the oldest queued message, or Err(Empty) at once
try_recv(ch) == first(ch)

\* recv_conversation dropping the received message
recv_conversation_lost(conv, got, t) == conv

\* recv_conversation assigning the received message instead of pushing it
recv_conversation_replace(conv, got, t) ==
    IF got = None THEN conv
    ELSE << ChatMessageRequest(got.val.role, got.val.content, t) >>

\* the conversation after the relay check
recv_conversation(conv, got, t) ==
    IF got = None THEN conv
    ELSE Append(conv, ChatMessageRequest(got.val.role, got.val.content, t))

\* recv_is_typing clearing the flag whether or not a message was received
recv_is_typing_always(typing, got) == FALSE

\* recv_is_typing leaving the flag for a later frame to clear
recv_is_typing_stale(typing, got) == typing

\* is_typing after the relay check
recv_is_typing(typing, got) == IF got = None THEN typing ELSE FALSE

\* recv_typing_start leaving the start time in place
recv_typing_start_kept(ts, got) == ts

\* typing_start after the relay check
recv_typing_start(ts, got) == IF got = None THEN ts ELSE None

\* render_typing_start never starting the indicator's clock
render_typing_start_never(typing, ts, t) == ts

\* the typing indicator's lazy start: typing_start is set while rendering
render_typing_start(typing, ts, t) ==
    IF typing /\ ts = None THEN Some(t) ELSE ts

\* should_send without the is_typing gate
should_send_ungated(clicked, inp, typing) ==
    clicked /\ trim(inp) # << >>

should_send(clicked, inp, typing) ==
    clicked /\ trim(inp) # << >> /\ ~typing

\* user_message pushing the text box as it is
user_message_untrimmed(inp, t) == ChatMessageRequest("user", inp, t)

\* the user message pushed by an accepted submission
user_message(inp, t) == ChatMessageRequest("user", trim(inp), t)

\* request_repaint asking for a further frame only when nothing is pending
request_repaint_idle_only(typing) == IF typing THEN None ELSE Some(0)

\* the end of update: the delay in ms after which the context is asked to
\* run the next frame, given is_typing as the frame leaves it
request_repaint(typing) == IF typing THEN Some(250) ELSE Some(0)

\* typed: the text box after this frame's editing; sel: the model selected
\* after this frame; clicked: Send was clicked or Ctrl+Enter pressed
Tick(typed, sel, clicked) ==
    /\ variant = "gui"
    /\ ~closed
    /\ LET got    == try_recv(chan)
           conv1  == recv_conversation(conversation, got, Instant_now)
           typ1   == recv_is_typing(is_typing, got)
           ts1    == recv_typing_start(typing_start, got)
           ts2    == render_typing_start(typ1, ts1, Instant_now)
           send   == should_send(clicked, typed, typ1)
           conv2  == IF send THEN Append(conv1, user_message(typed, Instant_now)) ELSE conv1
       IN  /\ send => Len(threads) < MaxDispatch
           /\ chan' = IF got = None THEN chan ELSE Tail(chan)
           /\ current_model' = sel
           /\ typing_start' = ts2
           /\ conversation' = conv2
           /\ is_typing' = IF send THEN TRUE ELSE typ1
           /\ threads' = IF send THEN Append(threads, spawn(conv2, sel)) ELSE threads
           /\ input' = IF send THEN << >> ELSE typed
           /\ repaint' = request_repaint(IF send THEN TRUE ELSE typ1)
    /\ UNCHANGED <<variant, closed, cli_vars>>

\* the window is closed: run_native drops the ChatApp and with it rx
Close ==
    /\ variant = "gui"
    /\ ~closed
    /\ closed' = TRUE
    /\ UNCHANGED <<variant, conversation, input, chan, is_typing, typing_start,
                   current_model, threads, repaint, cli_vars>>

----------------------------------------------------------------------------
(* main.rs: the command-line loop *)

\* the lines posted so far: every posted line left a user message
cli_turns(conv) == Cardinality({ i \in 1..Len(conv) : conv[i].role = "user" })

\* read_line, trim, the quit / empty tests, then push and post
CliReadLine(typed) ==
    /\ variant = "cli"
    /\ cli_pc = "prompt"
    /\ LET user_input == trim(typed \o <<"\n">>)
       IN  IF eq_ignore_ascii_case(user_input, quit)
           THEN /\ cli_pc' = "exited"
                /\ UNCHANGED <<conversation, cli_request>>
           ELSE IF user_input = << >>
           THEN UNCHANGED <<conversation, cli_pc, cli_request>>
           ELSE /\ cli_turns(conversation) < MaxCliTurns
                /\ conversation' = Append(conversation,
                                          CliChatMessageRequest("user", user_input))
                /\ cli_request' = Some(OpenRouterChatRequest(CliModel, conversation'))
                /\ cli_pc' = "posted"
    /\ UNCHANGED <<variant, gui_vars, cli_resp>>

\* the POST resolves
CliNetRespond(r) ==
    /\ variant = "cli"
    /\ cli_pc = "posted"
    /\ cli_resp' = Some(r)
    /\ cli_pc' = "responded"
    /\ UNCHANGED <<variant, conversation, gui_vars, cli_request>>

\* where main's loop goes with the outcome of the POST:
\* "fault" is main returning Err through a `?`
cli_next_pc(resp) ==
    IF resp.kind = "error" THEN "fault"
    ELSE IF ~resp.readable THEN "fault"
    ELSE "prompt"

\* what main appends for the outcome of the POST
cli_reply(resp) ==
    IF resp.kind = "error" THEN None
    ELSE IF ~is_success(resp.status) THEN None
    ELSE IF ~resp.readable THEN None
    ELSE LET parsed == from_str(resp.text)
         IN  IF parsed = None THEN None
             ELSE LET choice == first(parsed.val.choices)
                  IN  IF choice = None THEN None
                      ELSE Some(CliChatMessageRequest("assistant",
                                                      choice.val.message.content))

\* CliHandle taking the user message back when the exchange yields no reply
CliHandle_rollback ==
    /\ variant = "cli"
    /\ cli_pc = "responded"
    /\ cli_pc' = cli_next_pc(cli_resp.val)
    /\ conversation' = IF cli_reply(cli_resp.val) = None
                       THEN SubSeq(conversation, 1, Len(conversation) - 1)
                       ELSE Append(conversation, cli_reply(cli_resp.val).val)
    /\ cli_resp' = None
    /\ UNCHANGED <<variant, gui_vars, cli_request>>

\* the rest of the loop body after the POST: the status test, the decoding
\* and the first choice
CliHandle ==
    /\ variant = "cli"
    /\ cli_pc = "responded"
    /\ cli_pc' = cli_next_pc(cli_resp.val)
    /\ conversation' = IF cli_reply(cli_resp.val) = None THEN conversation
                       ELSE Append(conversation, cli_reply(cli_resp.val).val)
    /\ cli_resp' = None
    /\ UNCHANGED <<variant, gui_vars, cli_request>>

----------------------------------------------------------------------------

Next ==
    \/ \E typed \in InputTexts \cup {input}, sel \in PickedModels, clicked \in BOOLEAN :
          Tick(typed, sel, clicked)
    \/ \E i \in 1..Len(threads) : ThreadPost(i)
    \/ \E i \in 1..Len(threads), r \in Responses : NetRespond(i, r)
    \/ \E i \in 1..Len(threads) : ThreadHandle(i)
    \/ \E i \in 1..Len(threads) : ThreadSend(i)
    \/ Close
    \/ \E typed \in InputLines : CliReadLine(typed)
    \/ \E r \in Responses : CliNetRespond(r)
    \/ CliHandle

Spec == Init /\ [][Next]_vars

\* a frame the egui context runs because the frame before it asked for a
\* repaint; what the user does during it is free
ScheduledFrame ==
    /\ repaint # None
    /\ \E typed \in InputTexts \cup {input}, sel \in PickedModels, clicked \in BOOLEAN :
          Tick(typed, sel, clicked)

\* the program under an event loop that runs every frame it was asked for
FairSpec == Init /\ [][Next]_vars /\ WF_vars(ScheduledFrame)

----------------------------------------------------------------------------
(* Vocabulary of the properties *)

\* the transcript as roles and contents
Transcript == SerializeMessages(conversation)

WelcomeEntry == [role |-> "assistant", content |-> WelcomeText]

UserEntry(text) == [role |-> "user", content |-> text]

AssistantEntry(text) == [role |-> "assistant", content |-> text]

\* every dispatch has run to its end, the relay is empty and the last
\* result has been received
AllReceived ==
    /\ variant = "gui"
    /\ chan = << >>
    /\ ~is_typing
    /\ \A i \in 1..Len(threads) : threads[i].pc = "done"

\* a complete completion carrying the single choice {assistant, "hi there"}
HiThereResponse ==
    [kind |-> "http", status |-> 200, readable |-> TRUE,
     text |-> Completion(<< [message |-> ChatMessage("assistant", hi_there)] >>)]

\* thread i takes its ThreadHandle step on response r
HandlesResponse(i, r) ==
    /\ i \in 1..Len(threads)
    /\ threads[i].pc = "responded"
    /\ threads[i].resp = Some(r)
    /\ threads'[i].pc = "result"

\* main.rs takes its CliHandle step on response r
CliHandlesResponse(r) ==
    /\ variant = "cli"
    /\ cli_pc = "responded"
    /\ cli_resp = Some(r)
    /\ cli_pc' # "responded"

----------------------------------------------------------------------------
(* C1 *)

\* C1 as stated: once N submissions have been answered one at a time and the
\* relay is drained, the transcript holds exactly 2N messages, user first,
\* in strict alternation.
C1_AsStated ==
    AllReceived =>
        /\ Len(conversation) = 2 * Len(threads)
        /\ \A k \in 1..Len(conversation) :
              conversation[k].role = IF k % 2 = 1 THEN "user" ELSE "assistant"

\* C1 (amended): in the gui, once N submissions have been answered one at a
\* time and the relay is drained, the transcript holds exactly 2N + 1
\* messages: the welcome message of ChatApp::new, then user, assistant, ...
\* in strict alternation.
C1_WelcomeThenAlternation ==
    AllReceived =>
        /\ Len(conversation) = 2 * Len(threads) + 1
        /\ Transcript[1] = WelcomeEntry
        /\ \A k \in 2..Len(conversation) :
              conversation[k].role = IF k % 2 = 0 THEN "user" ELSE "assistant"

C1_Witness ==
    /\ AllReceived
    /\ Len(threads) = 2
    /\ Len(conversation) = 5

----------------------------------------------------------------------------
(* C2 *)

\* the first dispatch was launched for "hello", yielded {assistant, "hi there"},
\* and that result has been received
HelloAnswered ==
    /\ AllReceived
    /\ Len(threads) = 1
    /\ SerializeMessages(threads[1].conversation) = << WelcomeEntry, UserEntry(hello) >>
    /\ threads[1].result = Some(ChatMessage("assistant", hi_there))

\* C2 as stated: after "hello" is answered with the single choice
\* {assistant, "hi there"} and the relay is drained, the transcript is exactly
\* [{user,"hello"}, {assistant,"hi there"}].
C2_AsStated ==
    HelloAnswered => Transcript = << UserEntry(hello), AssistantEntry(hi_there) >>

\* C2 (amended): a dispatch that gets the completion with the single choice
\* {assistant, "hi there"} yields {assistant, "hi there"}; in the gui the
\* transcript after "hello" is so answered is [welcome, {user,"hello"},
\* {assistant,"hi there"}]; in the cli it is [{user,"hello"},
\* {assistant,"hi there"}].
C2_HelloScenario ==
    /\ [](HelloAnswered =>
            Transcript = << WelcomeEntry, UserEntry(hello), AssistantEntry(hi_there) >>)
    /\ [][ /\ \A i \in 1..Len(threads) :
                HandlesResponse(i, HiThereResponse) =>
                    threads'[i].result = Some(ChatMessage("assistant", hi_there))
           /\ (CliHandlesResponse(HiThereResponse) /\ conversation = << UserEntry(hello) >>) =>
                    /\ conversation' = << UserEntry(hello), AssistantEntry(hi_there) >>
                    /\ cli_pc' = "prompt"
         ]_vars

C2_Witness ==
    /\ HelloAnswered
    /\ Len(conversation) = 3

----------------------------------------------------------------------------
(* C3 *)

ServerError(r) == r.kind = "http" /\ r.status = 500

\* the first dispatch was launched for "ping" and has come back without a result
PingFailed ==
    /\ variant = "gui"
    /\ Len(threads) >= 1
    /\ SerializeMessages(threads[1].conversation) = << WelcomeEntry, UserEntry(ping) >>
    /\ \/ threads[1].pc \in {"responded", "result"} /\ ServerError(threads[1].resp.val)
       \/ threads[1].pc = "done" /\ threads[1].result = None

\* C3 as stated: after "ping" is answered with HTTP 500 the transcript is
\* exactly [{user,"ping"}] in every later state.
C3_AsStated ==
    PingFailed => Transcript = << UserEntry(ping) >>

\* C3 (amended): a dispatch answered with HTTP 500 yields no result; in the
\* gui, after "ping" is so answered the transcript is exactly
\* [welcome, {user,"ping"}] in every later state; in the cli the failed
\* exchange appends nothing, so the transcript is [{user,"ping"}] when the
\* loop is left or returns to the prompt.
C3_PingScenario ==
    /\ [](PingFailed => Transcript = << WelcomeEntry, UserEntry(ping) >>)
    /\ [][ /\ \A i \in 1..Len(threads), r \in Responses :
                (ServerError(r) /\ HandlesResponse(i, r)) => threads'[i].result = None
           /\ \A r \in Responses :
                (ServerError(r) /\ CliHandlesResponse(r) /\ conversation = << UserEntry(ping) >>)
                    => conversation' = << UserEntry(ping) >>
         ]_vars

C3_Witness ==
    /\ PingFailed
    /\ threads[1].pc = "done"
    /\ is_typing
    /\ input = hello

----------------------------------------------------------------------------
(* C4 *)

\* C4: the snapshot a dispatch is launched with is the transcript of that
\* moment, no later step changes it, and the messages of the request the
\* dispatch serialises are that snapshot.
C4_SnapshotIndependent ==
    [][ /\ \A i \in 1..Len(threads) :
              /\ i <= Len(threads')
              /\ threads'[i].conversation = threads[i].conversation
        /\ Len(threads') > Len(threads) =>
              threads'[Len(threads')].conversation = conversation'
        /\ \A i \in 1..Len(threads') :
              threads'[i].request # None =>
                  threads'[i].request.val.messages
                      = SerializeMessages(threads'[i].conversation)
      ]_vars

\* a request was serialised from a snapshot the transcript has since outgrown
C4_Witness ==
    /\ variant = "gui"
    /\ Len(threads) >= 1
    /\ threads[1].request # None
    /\ Len(conversation) > Len(threads[1].conversation)
    /\ threads[1].request.val.messages = SerializeMessages(threads[1].conversation)

----------------------------------------------------------------------------
(* C5 *)

\* a successful, complete completion whose choices array is empty
EmptyChoicesResponse ==
    [kind |-> "http", status |-> 200, readable |-> TRUE, text |-> Completion(<< >>)]

\* thread i takes its ThreadSend step
Sends(i) ==
    /\ i \in 1..Len(threads)
    /\ threads[i].pc = "result"
    /\ threads'[i].pc = "done"

\* C5: a dispatch whose response is a success with an empty choices array
\* yields no message: its send step leaves the relay as it was, empty, and
\* from the response on the transcript stays the snapshot the dispatch was
\* launched with; the cli appends nothing for such a response.
C5_EmptyChoicesYieldNothing ==
    /\ [][ /\ \A i \in 1..Len(threads) :
                /\ HandlesResponse(i, EmptyChoicesResponse) => threads'[i].result = None
                /\ (Sends(i) /\ threads[i].resp = Some(EmptyChoicesResponse)) =>
                      chan = << >> /\ chan' = << >>
           /\ CliHandlesResponse(EmptyChoicesResponse) =>
                conversation' = conversation /\ cli_pc' = "prompt"
         ]_vars
    /\ [](\A i \in 1..Len(threads) :
            threads[i].resp = Some(EmptyChoicesResponse) =>
                chan = << >> /\ conversation = threads[i].conversation)

\* a dispatch has handled an empty choices array and the owner has ticked since
C5_Witness ==
    /\ variant = "gui"
    /\ Len(threads) = 2
    /\ threads[2].pc = "result"
    /\ threads[2].resp = Some(EmptyChoicesResponse)
    /\ threads[2].result = None
    /\ typing_start # None

----------------------------------------------------------------------------
(* C6 *)

NonSuccess(r) == r.kind = "http" /\ ~(r.status \in 200..299)

\* the body of r is a complete completion with at least one choice
DecodableBody(r) ==
    /\ r.readable
    /\ r.text.json
    /\ ResponseFields \subseteq r.text.fields
    /\ r.text.choices # << >>

\* C6: a dispatch whose response has a non-success status yields no message,
\* whatever the body: its send step leaves the relay unchanged, and nothing is
\* appended to the transcript while the dispatch holds that response; the cli
\* appends nothing either.
C6_NonSuccessYieldsNothing ==
    /\ [][ \A r \in Responses : NonSuccess(r) =>
             /\ \A i \in 1..Len(threads) :
                  /\ HandlesResponse(i, r) => threads'[i].result = None
                  /\ (Sends(i) /\ threads[i].resp = Some(r)) => chan' = chan
                  /\ threads[i].resp = Some(r) => conversation' = conversation
             /\ CliHandlesResponse(r) => conversation' = conversation
         ]_vars

\* a non-success response with a body that decodes to a completion has been handled
C6_Witness ==
    /\ variant = "gui"
    /\ Len(threads) >= 1
    /\ threads[1].pc = "result"
    /\ NonSuccess(threads[1].resp.val)
    /\ DecodableBody(threads[1].resp.val)
    /\ threads[1].result = None

----------------------------------------------------------------------------
(* C7 *)

\* transport failure, non-success status, or a body that does not decode
TransportFailure(r) == r.kind = "error"

DecodeFailure(r) ==
    /\ r.kind = "http"
    /\ r.status \in 200..299
    /\ r.readable
    /\ ~(r.text.json /\ ResponseFields \subseteq r.text.fields)

\* C7: in both variants a transport failure, a non-success status and a body
\* decode failure produce no message, append nothing, and leave the
\* interaction loop running.
C7_FailuresNonFatal ==
    [][ \A r \in Responses :
          (TransportFailure(r) \/ (NonSuccess(r) /\ r.readable) \/ DecodeFailure(r)) =>
             /\ \A i \in 1..Len(threads) :
                  HandlesResponse(i, r) =>
                      /\ threads'[i].result = None
                      /\ conversation' = conversation
                      /\ closed' = closed
             /\ CliHandlesResponse(r) =>
                  /\ conversation' = conversation
                  /\ cli_pc' = "prompt"
      ]_vars

----------------------------------------------------------------------------
(* C8 *)

\* dispatches launched whose result, if any, the owner has not received
InFlight ==
    Cardinality({ i \in 1..Len(threads) : threads[i].pc # "done" }) + Len(chan)

\* C8: at most one dispatch is in flight in every reachable state, is_typing
\* is set while one is, and a dispatch is launched only by a frame in which
\* is_typing is false when the input is handled (it was false, or the frame
\* has just received the pending result).
C8_SingleInFlight ==
    /\ [](variant = "gui" => (InFlight <= 1 /\ (InFlight = 1 => is_typing)))
    /\ [][ Len(threads') > Len(threads) =>
              /\ Len(threads') = Len(threads) + 1
              /\ ~is_typing \/ chan # << >>
              /\ \A i \in 1..Len(threads) : threads[i].pc = "done"
              /\ Len(chan) <= 1
         ]_vars

\* a second dispatch is in flight after the first one was answered
C8_Witness ==
    /\ variant = "gui"
    /\ Len(threads) = 2
    /\ threads[1].pc = "done"
    /\ threads[2].pc = "responded"
    /\ is_typing
    /\ input # << >>

----------------------------------------------------------------------------
(* C9 *)

\* C9: while the owner runs, a frame can always be taken, whether or not the
\* relay holds a message; a frame that finds the relay empty changes the
\* transcript and is_typing only by accepting a submission, never clears
\* typing_start, and does go on to accept a submission when one is made.
C9_TickNeverBlocks ==
    /\ []((variant = "gui" /\ ~closed) =>
            /\ ENABLED Tick(input, current_model, FALSE)
            /\ (chan = << >> /\ ~is_typing /\ Len(threads) < MaxDispatch) =>
                  ENABLED (Tick(hello, current_model, TRUE)
                             /\ conversation' = Append(conversation,
                                                       user_message(hello, Instant_now))))
    /\ [][ (variant = "gui" /\ chan = << >>) =>
              /\ \/ conversation' = conversation /\ is_typing' = is_typing
                 \/ /\ ~is_typing /\ is_typing'
                    /\ Len(conversation') = Len(conversation) + 1
                    /\ conversation'[Len(conversation')].role = "user"
                    /\ SubSeq(conversation', 1, Len(conversation)) = conversation
              /\ typing_start # None => typing_start' = typing_start
              /\ chan' = << >> \/ conversation' = conversation
         ]_vars

\* a frame found the relay empty while a dispatch was pending
C9_Witness ==
    /\ variant = "gui"
    /\ ~closed
    /\ chan = << >>
    /\ is_typing
    /\ typing_start # None
    /\ Len(threads) = 1
    /\ threads[1].pc = "start"
    /\ input = hello

----------------------------------------------------------------------------
(* C10 *)

\* assistant messages appended from the relay: all but the welcome message
ReceivedCount ==
    Cardinality({ k \in 2..Len(conversation) : conversation[k].role = "assistant" })

\* dispatches that have run their send step with a message
SentCount ==
    Cardinality({ i \in 1..Len(threads) :
                    threads[i].pc = "done" /\ threads[i].result # None })

\* C10: every send step queues at most one message, and the messages received
\* from the relay plus those still queued never outnumber the dispatches that
\* have sent, hence the dispatches launched.
C10_AtMostOneMessagePerDispatch ==
    /\ [](variant = "gui" =>
            /\ ReceivedCount + Len(chan) <= SentCount
            /\ SentCount <= Len(threads))
    /\ [][ \A i \in 1..Len(threads) :
              Sends(i) => Len(chan') <= Len(chan) + 1
         ]_vars

\* two dispatches have each sent their one message; the second is still queued
C10_Witness ==
    /\ variant = "gui"
    /\ Len(threads) = 2
    /\ SentCount = 2
    /\ ReceivedCount = 1
    /\ Len(chan) = 1

----------------------------------------------------------------------------
(* C11 *)

\* C11: the send step of a dispatch whose receiver has been dropped ends the
\* thread normally and changes nothing else: the relay, the transcript, the
\* pending state and every other thread are as before.
C11_SendAfterCloseIsNoOp ==
    [][ \A i \in 1..Len(threads) :
          (Sends(i) /\ closed) =>
              /\ threads'[i].pc = "done"
              /\ threads'[i].result = threads[i].result
              /\ \A j \in 1..Len(threads) : j # i => threads'[j] = threads[j]
              /\ Len(threads') = Len(threads)
              /\ UNCHANGED <<variant, conversation, input, chan, is_typing,
                             typing_start, current_model, closed, cli_vars>>
      ]_vars

\* a dispatch ended with a message it could not deliver
C11_Witness ==
    /\ variant = "gui"
    /\ closed
    /\ Len(threads) = 1
    /\ threads[1].pc = "done"
    /\ threads[1].result = Some(ChatMessage("assistant", hi_there))
    /\ chan = << >>
    /\ is_typing
    /\ Len(conversation) = 2

----------------------------------------------------------------------------
(* C12 *)

PaddedPing == <<" ">> \o ping \o <<" ", "\n">>

\* the loop is Idle: nothing pending, nothing queued
Idle == variant = "gui" /\ ~closed /\ ~is_typing /\ chan = << >>

\* the thread a frame has just launched
Launched == threads'[Len(threads')]

\* C12: in the Idle state a submission of " ping \n" appends the one user
\* message {user,"ping"}, launches one dispatch on the transcript ending with
\* it, sets is_typing and clears the input, while a submission of " " or of
\* the empty text changes nothing but the text box; every launching step
\* appends a non-empty trimmed user message last and snapshots the transcript
\* with it; the cli pushes the trimmed line and posts the conversation with it.
C12_SubmissionInIdle ==
    /\ [](Idle =>
            /\ Len(threads) < MaxDispatch =>
                 ENABLED (/\ Tick(PaddedPing, current_model, TRUE)
                          /\ conversation' = Append(conversation,
                                 [role |-> "user", content |-> ping,
                                  timestamp |-> Instant_now])
                          /\ Len(threads') = Len(threads) + 1
                          /\ SubSeq(threads', 1, Len(threads)) = threads
                          /\ Launched.conversation = conversation'
                          /\ Launched.pc = "start"
                          /\ is_typing'
                          /\ input' = << >>)
            /\ \A blank \in { << >>, <<" ">> } :
                 ENABLED (/\ Tick(blank, current_model, TRUE)
                          /\ UNCHANGED <<conversation, threads, is_typing,
                                         typing_start, chan>>
                          /\ input' = blank))
    /\ [][ /\ Len(threads') > Len(threads) =>
                /\ Len(threads') = Len(threads) + 1
                /\ Len(conversation') >= Len(conversation) + 1
                /\ conversation'[Len(conversation')].role = "user"
                /\ conversation'[Len(conversation')].content \in {hello, ping}
                /\ Launched.conversation = conversation'
                /\ is_typing'
                /\ input' = << >>
           /\ (variant = "cli" /\ cli_pc = "prompt") =>
                \/ UNCHANGED <<conversation, cli_request>> /\ cli_pc' \in {"prompt", "exited"}
                \/ /\ cli_pc' = "posted"
                   /\ Len(conversation') = Len(conversation) + 1
                   /\ SubSeq(conversation', 1, Len(conversation)) = conversation
                   /\ conversation'[Len(conversation')] \in
                          { UserEntry(hello), UserEntry(ping) }
                   /\ cli_request' = Some([model |-> CliModel, messages |-> conversation'])
         ]_vars

\* " ping \n" was submitted in Idle
C12_Witness ==
    /\ variant = "gui"
    /\ Len(threads) = 1
    /\ threads[1].pc = "start"
    /\ Transcript = << WelcomeEntry, UserEntry(ping) >>
    /\ threads[1].conversation = conversation
    /\ is_typing
    /\ input = << >>

----------------------------------------------------------------------------
(* C13 *)

\* the step takes a message from the relay
Receives == chan # << >> /\ chan' = Tail(chan)

\* C13: a step that takes a message from the relay appends one assistant
\* message with the received content right after the old transcript and
\* clears typing_start; it clears is_typing, which is set again only when the
\* same frame goes on to accept a submission.
C13_ReceiveAppendsAndClears ==
    [][ Receives =>
          /\ is_typing
          /\ Len(conversation') >= Len(conversation) + 1
          /\ SubSeq(conversation', 1, Len(conversation)) = conversation
          /\ conversation'[Len(conversation) + 1] =
                 [role |-> "assistant", content |-> Head(chan).content,
                  timestamp |-> Instant_now]
          /\ typing_start' = None
          /\ \/ /\ Len(conversation') = Len(conversation) + 1
                /\ ~is_typing'
                /\ threads' = threads
             \/ /\ Len(conversation') = Len(conversation) + 2
                /\ Len(threads') = Len(threads) + 1
                /\ is_typing'
      ]_vars

\* a result was received and the loop is Idle again
C13_Witness ==
    /\ variant = "gui"
    /\ Len(threads) = 1
    /\ threads[1].pc = "done"
    /\ Len(conversation) = 3
    /\ conversation[3].role = "assistant"
    /\ ~is_typing
    /\ typing_start = None
    /\ chan = << >>

----------------------------------------------------------------------------
(* C14 *)

\* the loop is AwaitingResponse when the frame handles its input
Awaiting == variant = "gui" /\ ~closed /\ is_typing /\ chan = << >>

\* C14: while a dispatch is pending and the relay is empty, a submission
\* with any text leaves the transcript, is_typing, the relay and the threads
\* as they were and keeps the typed text in the box (typing_start is touched
\* only by the indicator's lazy start); no step from such a state appends to
\* the transcript, launches a dispatch or clears is_typing.
C14_SubmissionRejectedWhileAwaiting ==
    /\ [](Awaiting =>
            \A text \in InputTexts :
               ENABLED (/\ Tick(text, current_model, TRUE)
                        /\ UNCHANGED <<conversation, is_typing, chan, threads>>
                        /\ input' = text
                        /\ typing_start' = IF typing_start = None
                                           THEN Some(Instant_now) ELSE typing_start))
    /\ [][ Awaiting =>
              /\ conversation' = conversation
              /\ is_typing'
              /\ Len(threads') = Len(threads)
              /\ input # << >> => input' # << >>
         ]_vars

\* the user has typed "hello" while the first dispatch is pending
C14_Witness ==
    /\ Awaiting
    /\ Len(threads) = 1
    /\ threads[1].pc = "posted"
    /\ input = hello
    /\ typing_start # None
    /\ Len(conversation) = 2

----------------------------------------------------------------------------
(* C15 *)

\* dispatch i has ended without a result
Failed(i) == threads[i].pc = "done" /\ threads[i].result = None

\* C15: every step that clears is_typing takes a message from the relay;
\* while a dispatch has not ended is_typing is set, and once a dispatch has
\* ended without a result is_typing is set in every later state, it stays the
\* last dispatch launched and the transcript stays its snapshot.
C15_OnlyReceiveClearsPending ==
    /\ [][ (is_typing /\ ~is_typing') =>
              /\ Receives
              /\ Len(conversation') = Len(conversation) + 1
         ]_vars
    /\ [](variant = "gui" =>
            \A i \in 1..Len(threads) :
               /\ threads[i].pc # "done" => is_typing
               /\ Failed(i) =>
                    /\ is_typing
                    /\ i = Len(threads)
                    /\ chan = << >>
                    /\ conversation = threads[i].conversation)
    /\ [][ (\E i \in 1..Len(threads) : Failed(i)) =>
              /\ threads' = threads
              /\ conversation' = conversation
              /\ is_typing'
         ]_vars

\* the first dispatch failed, the indicator runs and the user's next text waits
C15_Witness ==
    /\ variant = "gui"
    /\ ~closed
    /\ Len(threads) = 1
    /\ Failed(1)
    /\ is_typing
    /\ typing_start # None
    /\ input = PaddedPing

----------------------------------------------------------------------------
(* C16 *)

\* C16: a frame that finds a message on the relay and carries a submission
\* of "hello" appends the received assistant message, then the user message,
\* and launches the dispatch in that same frame; every step that appends two
\* messages appends the received one first.
C16_RelayCheckBeforeInput ==
    /\ []((variant = "gui" /\ ~closed /\ chan # << >> /\ Len(threads) < MaxDispatch) =>
            ENABLED (/\ Tick(hello, current_model, TRUE)
                     /\ conversation' = conversation \o
                           << [role |-> "assistant", content |-> Head(chan).content,
                               timestamp |-> Instant_now],
                              [role |-> "user", content |-> hello,
                               timestamp |-> Instant_now] >>
                     /\ chan' = Tail(chan)
                     /\ Len(threads') = Len(threads) + 1
                     /\ Launched.conversation = conversation'
                     /\ is_typing'))
    /\ [][ Len(conversation') > Len(conversation) + 1 =>
              /\ Receives
              /\ Len(conversation') = Len(conversation) + 2
              /\ conversation'[Len(conversation) + 1].role = "assistant"
              /\ conversation'[Len(conversation) + 1].content = Head(chan).content
              /\ conversation'[Len(conversation) + 2].role = "user"
         ]_vars

\* a result is queued and the frame that receives it can take a submission
C16_Witness ==
    /\ variant = "gui"
    /\ ~closed
    /\ Len(chan) = 1
    /\ is_typing
    /\ Len(threads) = 1
    /\ ENABLED (/\ Tick(hello, current_model, TRUE)
                /\ Len(conversation') = Len(conversation) + 2
                /\ Len(threads') = 2)

----------------------------------------------------------------------------
(* C17 *)

\* C17 as stated: is_typing is true exactly when typing_start is present.
C17_AsStated ==
    variant = "gui" => (is_typing <=> typing_start # None)

\* C17 (amended): the launching step sets is_typing and leaves typing_start
\* absent; the next frame that renders while is_typing is still set sets
\* typing_start; a receive clears both; so typing_start is present only while
\* is_typing is set.
C17_LazyTypingStart ==
    /\ [](variant = "gui" => (typing_start # None => is_typing))
    /\ [](Awaiting =>
            ENABLED (/\ Tick(input, current_model, FALSE)
                     /\ is_typing'
                     /\ typing_start' = IF typing_start = None
                                        THEN Some(Instant_now) ELSE typing_start))
    /\ [][ /\ Len(threads') > Len(threads) => (is_typing' /\ typing_start' = None)
           /\ Receives => typing_start' = None
           /\ (typing_start = None /\ typing_start' # None) =>
                 (is_typing /\ is_typing' /\ threads' = threads)
         ]_vars

\* a dispatch has just been launched: is_typing is set, typing_start is not
C17_Witness ==
    /\ variant = "gui"
    /\ Len(threads) = 1
    /\ threads[1].pc = "start"
    /\ is_typing
    /\ typing_start = None
    /\ input = << >>

----------------------------------------------------------------------------
(* C18 *)

\* a successful, complete completion with at least one choice
HasChoices(r) ==
    /\ r.kind = "http"
    /\ r.status \in 200..299
    /\ DecodableBody(r)

FirstChoiceMessage(r) ==
    [role |-> "assistant", content |-> r.text.choices[1].message.content]

\* C18: on a successful response with one or more choices the dispatch's
\* result, and the one message its send step queues, is {assistant,
\* choices[0].message.content}, whatever the first choice's role and whatever
\* follows it; the cli appends that same message; nothing but assistant
\* messages is ever queued on the relay.
C18_FirstChoiceOnly ==
    /\ [][ \A r \in Responses : HasChoices(r) =>
             /\ \A i \in 1..Len(threads) :
                  /\ HandlesResponse(i, r) =>
                        threads'[i].result = Some(FirstChoiceMessage(r))
                  /\ (Sends(i) /\ threads[i].resp = Some(r) /\ ~closed) =>
                        chan' = Append(chan, FirstChoiceMessage(r))
             /\ CliHandlesResponse(r) =>
                  /\ conversation' = Append(conversation, FirstChoiceMessage(r))
                  /\ cli_pc' = "prompt"
         ]_vars
    /\ [](\A k \in 1..Len(chan) : chan[k].role = "assistant")

\* the first of two choices, declared with role user, became the result
C18_Witness ==
    /\ variant = "gui"
    /\ Len(threads) = 1
    /\ threads[1].pc = "result"
    /\ threads[1].resp.val.kind = "http"
    /\ threads[1].resp.val.text.choices =
          << [message |-> ChatMessage("user", other)],
             [message |-> ChatMessage("assistant", hi_there)] >>
    /\ threads[1].result = Some(ChatMessage("assistant", other))

----------------------------------------------------------------------------
(* C19 *)

\* the step is a step of a background thread
ThreadStep ==
    /\ Len(threads') = Len(threads)
    /\ \E i \in 1..Len(threads) : threads'[i].pc # threads[i].pc

\* C19: every step leaves the old transcript as a prefix of the new one, and
\* every step of a background thread leaves the transcript unchanged.
C19_AppendOnly ==
    [][ /\ Len(conversation') >= Len(conversation)
        /\ SubSeq(conversation', 1, Len(conversation)) = conversation
        /\ ThreadStep => conversation' = conversation
      ]_vars

\* the transcript has grown by a received message while a thread is at work
C19_Witness ==
    /\ variant = "gui"
    /\ Len(conversation) = 4
    /\ Len(threads) = 2
    /\ threads[2].pc = "responded"
    /\ threads[1].pc = "done"

----------------------------------------------------------------------------
(* C20 *)

\* C20: the k-th message received from the relay is the result of the k-th
\* dispatch launched, which has ended by then; it stands right after that
\* dispatch's snapshot, and a receive takes the result of the last dispatch
\* launched.
C20_ReceivedInLaunchOrder ==
    /\ [](variant = "gui" =>
            /\ ReceivedCount <= Len(threads)
            /\ \A k \in 1..ReceivedCount :
                 /\ k <= Len(threads)
                 /\ threads[k].pc = "done"
                 /\ threads[k].result # None
                 /\ Len(conversation) >= 2 * k + 1
                 /\ threads[k].conversation = SubSeq(conversation, 1, 2 * k)
                 /\ SerializeMessage(conversation[2 * k + 1]) = threads[k].result.val)
    /\ [][ Receives =>
              /\ ReceivedCount + 1 = Len(threads)
              /\ threads[Len(threads)].pc = "done"
              /\ threads[Len(threads)].result = Some(Head(chan))
         ]_vars

\* two results received, each after the snapshot of its own dispatch
C20_Witness ==
    /\ variant = "gui"
    /\ ReceivedCount = 2
    /\ threads[1].result = Some(ChatMessage("assistant", other))
    /\ threads[2].result = Some(ChatMessage("assistant", hi_there))
    /\ conversation[3].content = other
    /\ conversation[5].content = hi_there

----------------------------------------------------------------------------
(* C21 *)

\* thread i has been launched and has not yet handed back its outcome
Running(i) == threads[i].pc \in {"start", "posted", "responded", "result"}

\* C21: the thread a frame launches holds the model selected and the
\* transcript as they are at the end of that frame's send handling; no later
\* step changes the model, the snapshot or the built request of a thread;
\* the request a thread builds carries the model and the snapshot it was
\* launched with; while a dispatch is running, a frame that selects any model
\* changes current_model and leaves every thread as it was.
C21_RequestFixedAtSend ==
    /\ [][ /\ Len(threads') > Len(threads) =>
                /\ Launched.model = current_model'
                /\ Launched.conversation = conversation'
                /\ Launched.request = None
           /\ \A i \in 1..Len(threads) :
                /\ i <= Len(threads')
                /\ threads'[i].model = threads[i].model
                /\ threads'[i].conversation = threads[i].conversation
                /\ threads[i].request # None => threads'[i].request = threads[i].request
                /\ (threads[i].request = None /\ threads'[i].request # None) =>
                      /\ threads'[i].request.val.model = threads[i].model
                      /\ threads'[i].request.val.messages
                            = SerializeMessages(threads[i].conversation)
         ]_vars
    /\ [](variant = "gui" =>
            \A i \in 1..Len(threads) :
               threads[i].request # None =>
                  threads[i].request.val
                      = OpenRouterChatRequest(threads[i].model,
                                              SerializeMessages(threads[i].conversation)))
    /\ []((variant = "gui" /\ ~closed) =>
            \A i \in 1..Len(threads) : Running(i) =>
               \A m \in PickedModels :
                  ENABLED (/\ Tick(input, m, FALSE)
                           /\ current_model' = m
                           /\ threads' = threads))

\* the selection was changed after the launch: the posted request still
\* names the model selected at the submission
C21_Witness ==
    /\ variant = "gui"
    /\ Len(threads) = 1
    /\ threads[1].pc = "posted"
    /\ threads[1].model = "anthropic/claude-3-5-sonnet"
    /\ threads[1].request.val.model = "anthropic/claude-3-5-sonnet"
    /\ threads[1].request.val.messages = << WelcomeEntry, UserEntry(hello) >>
    /\ current_model = "deepseek/deepseek-chat:free"
    /\ Len(conversation) = 2

----------------------------------------------------------------------------
(* C22 *)

\* the k-th dispatch has run its send step with a message
Completed(k) ==
    /\ variant = "gui"
    /\ k <= Len(threads)
    /\ threads[k].pc = "done"
    /\ threads[k].result # None

\* the message of the k-th dispatch stands in the transcript
Delivered(k) ==
    /\ Completed(k)
    /\ Len(conversation) >= 2 * k + 1
    /\ SerializeMessage(conversation[2 * k + 1]) = threads[k].result.val

\* C22: under an event loop that runs every frame it was asked for, a
\* message queued on the relay is eventually received unless the window is
\* closed; a dispatch that has sent its message has it at the head of the
\* relay or, once the relay is empty, standing in the transcript with
\* is_typing cleared by the receive (it is set again only if the receiving
\* frame itself launches the next dispatch); every frame asks for a further
\* frame, in 250 ms while is_typing is set, and while the window is open a
\* further frame can run.
C22_SuccessPathLiveness ==
    /\ (variant = "gui" /\ chan # << >>) ~> (closed \/ chan = << >>)
    /\ [](\A k \in 1..Len(threads) :
            (Completed(k) /\ ~closed) =>
               IF chan # << >>
               THEN /\ k = Len(threads) => chan = << threads[k].result.val >>
                    /\ k < Len(threads) => Delivered(k)
               ELSE /\ Delivered(k)
                    /\ ~is_typing \/ Len(threads) > k)
    /\ [](variant = "gui" =>
            /\ repaint # None
            /\ is_typing => repaint = Some(250)
            /\ ~closed => ENABLED (repaint # None /\ Tick(input, current_model, FALSE)))

\* the second dispatch's message was received and the loop is Idle again
C22_Witness ==
    /\ Idle
    /\ Delivered(2)
    /\ Len(conversation) = 5
    /\ repaint = Some(0)
    /\ typing_start = None
    /\ input = PaddedPing

----------------------------------------------------------------------------
(* C23 *)

\* the last dispatch launched
Producer == threads[Len(threads)]

\* C23: in the gui, a step that takes a message from the relay finds the
\* transcript equal to the snapshot of the dispatch that produced the message,
\* which ends with the user message of that dispatch, and appends the message
\* right after it; from its launch until its message is received, or for ever
\* if it yields none, the transcript is the last dispatch's snapshot; every
\* assistant message after the welcome message directly follows a user message.
C23_ReceiveFindsSnapshot ==
    /\ [][ Receives =>
              /\ Len(threads) >= 1
              /\ Producer.pc = "done"
              /\ Producer.result = Some(Head(chan))
              /\ conversation = Producer.conversation
              /\ conversation[Len(conversation)].role = "user"
              /\ SerializeMessage(conversation'[Len(conversation) + 1]) = Head(chan)
              /\ SubSeq(conversation', 1, Len(conversation)) = Producer.conversation
         ]_vars
    /\ [](variant = "gui" =>
            /\ (Len(threads) >= 1 /\ (chan # << >> \/ is_typing)) =>
                  conversation = Producer.conversation
            /\ \A k \in 2..Len(conversation) :
                  conversation[k].role = "assistant" =>
                     /\ k >= 3
                     /\ conversation[k - 1].role = "user")

\* the answer to " ping \n" was received right after its snapshot, which
\* ends with {user, "ping"}
C23_Witness ==
    /\ variant = "gui"
    /\ Len(threads) = 1
    /\ threads[1].result = Some(ChatMessage("assistant", other))
    /\ Transcript = << WelcomeEntry, UserEntry(ping), AssistantEntry(other) >>
    /\ SubSeq(conversation, 1, 2) = threads[1].conversation
    /\ ~is_typing
    /\ input = << " " >>

----------------------------------------------------------------------------
(* C24 *)

\* the exchange ends without a reply and without an error of the transport:
\* a non-success status whose body is read, a body that does not decode, or
\* an empty choices array
Unanswered(r) ==
    \/ NonSuccess(r) /\ r.readable
    \/ DecodeFailure(r)
    \/ r = EmptyChoicesResponse

\* the cli is at its prompt and the last message of the conversation is a
\* user message
PromptAfterUnanswered ==
    /\ variant = "cli"
    /\ cli_pc = "prompt"
    /\ conversation # << >>
    /\ conversation[Len(conversation)].role = "user"

\* C24: in the cli an exchange that ends in a non-success status, a body
\* that does not decode or an empty choices array leaves the conversation as
\* it was, ending with the user message of that exchange, and returns to the
\* prompt; the prompt is reached with a final user message in no other way;
\* from there the line "hello" is accepted, and the request then posted
\* carries the whole conversation, ending with the unanswered user message
\* directly followed by {user, "hello"}.
C24_CliKeepsUnansweredMessage ==
    /\ [][ \A r \in Responses :
             (Unanswered(r) /\ CliHandlesResponse(r)) =>
                /\ conversation' = conversation
                /\ conversation[Len(conversation)].role = "user"
                /\ conversation[Len(conversation)] = cli_request.val.messages[Len(conversation)]
                /\ cli_pc' = "prompt"
         ]_vars
    /\ [][ (~PromptAfterUnanswered /\ PromptAfterUnanswered') =>
              \E r \in Responses : Unanswered(r) /\ CliHandlesResponse(r)
         ]_vars
    /\ []((PromptAfterUnanswered /\ cli_turns(conversation) < MaxCliTurns) =>
            ENABLED (/\ CliReadLine(hello)
                     /\ cli_pc' = "posted"
                     /\ conversation' = Append(conversation, UserEntry(hello))
                     /\ cli_request' = Some(OpenRouterChatRequest(CliModel, conversation'))
                     /\ conversation'[Len(conversation)].role = "user"
                     /\ conversation'[Len(conversation) + 1].role = "user"))
    /\ [](variant = "cli" =>
            /\ cli_request # None =>
                  /\ Len(cli_request.val.messages) <= Len(conversation)
                  /\ cli_request.val.messages
                        = SubSeq(conversation, 1, Len(cli_request.val.messages))
            /\ cli_pc \in {"posted", "responded"} =>
                  cli_request.val.messages = conversation)

\* "ping" went unanswered and "hello" was posted after it: the request
\* carries two user messages in a row
C24_Witness ==
    /\ variant = "cli"
    /\ cli_pc = "posted"
    /\ conversation = << UserEntry(ping), UserEntry(hello) >>
    /\ cli_request = Some(OpenRouterChatRequest(CliModel,
                             << UserEntry(ping), UserEntry(hello) >>))

====
